---------------------------- MODULE Spec2Model ----------------------------
(***************************************************************************)
(* A model of src/scheduler.py: get_biased_timesteps(num_steps, m, s).     *)
(*                                                                         *)
(* Floating point.  The program computes in IEEE binary64.  The model      *)
(* keeps the format's structure and shrinks its size: a float is an        *)
(* integer count of units of 2^-FracBits, every arithmetic result is       *)
(* rounded to nearest, ties to even, at MantBits significant bits, and     *)
(* 0/0 is NaN.  Values below 2^MantBits units are exact, as binary64's     *)
(* subnormals are.  A float is a record [nan, x]; x counts units.          *)
(*                                                                         *)
(* Fractions.  The uniform fractions of stage 1 are kept exactly, as       *)
(* multiples of 1/UOne.  Machine epsilon lies far below every interior     *)
(* fraction 1/(num_steps-1) a call within MaxSteps produces; on the grid   *)
(* it is the smallest positive step, and the quantile table gives the      *)
(* value the library returns at the true epsilon.                          *)
(*                                                                         *)
(* Sequences are 1-based: position k here is index k-1 in the program.     *)
(***************************************************************************)
EXTENDS Integers, Sequences, FiniteSets, TLC

VARIABLES num_steps, m, s,   \* the arguments of the call
          pc,                \* the statement the call is at
          u, v, t,           \* the float arrays of stages 1-4
          timesteps,         \* the integer array of stages 5-6
          clamped,           \* timesteps as line 37 left it (history)
          i, iters,          \* the loop index of stage 6, iterations done
          err, result        \* the exception raised, the list returned

vars == <<num_steps, m, s, pc, u, v, t, timesteps, clamped, i, iters, err, result>>

-----------------------------------------------------------------------------
(* Bounds of the model *)

MaxSteps == 7
MantBits == 9
FracBits == 12

-----------------------------------------------------------------------------
(* Floats *)

Pow2(k) == 2 ^ k

One == Pow2(FracBits)

NaN == [nan |-> TRUE, x |-> 0]

Num(x) == [nan |-> FALSE, x |-> x]

Abs(x) == IF x < 0 THEN -x ELSE x

Sign(x) == IF x < 0 THEN -1 ELSE 1

\* num/den (num >= 0, den > 0) rounded to the nearest integer, ties to even
RoundHalfEven(num, den) ==
    LET q == num \div den
        r == num % den
    IN  IF 2 * r < den THEN q
        ELSE IF 2 * r > den THEN q + 1
        ELSE IF q % 2 = 0 THEN q ELSE q + 1

\* the spacing of the floats around num/den units: the least power of two g
\* with num/den < g * 2^MantBits
RECURSIVE GapFrom(_, _, _)
GapFrom(num, den, g) ==
    IF (num \div den) < g * Pow2(MantBits) THEN g ELSE GapFrom(num, den, 2 * g)

\* the float nearest to num/den units (num >= 0, den > 0)
FlRat(num, den) ==
    LET g == GapFrom(num, den, 1)
    IN  g * RoundHalfEven(num, den * g)

\* the float nearest to x units
Fl(x) == Sign(x) * FlRat(Abs(x), 1)

FAdd(a, b) == IF a.nan \/ b.nan THEN NaN ELSE Num(Fl(a.x + b.x))

FSub(a, b) == IF a.nan \/ b.nan THEN NaN ELSE Num(Fl(a.x - b.x))

\* the float nearest to x * y / One units, for x, y >= 0; a factor that is
\* a whole number of Ones is divided first, which keeps the product small
MulUnits(x, y) ==
    IF y % One = 0 THEN FlRat(x * (y \div One), 1)
    ELSE IF x % One = 0 THEN FlRat((x \div One) * y, 1)
    ELSE FlRat(x * y, One)

FMul(a, b) ==
    IF a.nan \/ b.nan THEN NaN
    ELSE Num(Sign(a.x) * Sign(b.x) * MulUnits(Abs(a.x), Abs(b.x)))

\* the least k >= 0 with a * 2^FracBits / d < 2^(MantBits + k)
RECURSIVE QuotShift(_, _, _)
QuotShift(a, d, k) ==
    IF a * Pow2(FracBits - MantBits) < d * Pow2(k) THEN k ELSE QuotShift(a, d, k + 1)

\* a / b; the quotient by 0 is not finite (0/0 is NaN, which is the only
\* quotient by 0 the program forms: max(v) = min(v) makes every v - min(v) 0)
FDiv(a, b) ==
    IF a.nan \/ b.nan \/ b.x = 0 THEN NaN
    ELSE LET n == Abs(a.x)
             d == Abs(b.x)
             k == QuotShift(n, d, 0)
             q == IF k <= FracBits
                  THEN RoundHalfEven(n * Pow2(FracBits - k), d)
                  ELSE RoundHalfEven(n, d * Pow2(k - FracBits))
         IN  Num(Sign(a.x) * Sign(b.x) * Pow2(k) * q)

-----------------------------------------------------------------------------
(* The library functions the program calls *)

\* 1.0 on the grid of fractions; every num_steps - 1 up to 8 divides it
UOne == 2 * 840

\* np.finfo(float).eps on the grid of fractions
EpsU == 1

\* np.linspace(0, 1, n), n >= 0: n evenly spaced fractions, ends included
Linspace(n) ==
    IF n = 0 THEN << >>
    ELSE IF n = 1 THEN << 0 >>
    ELSE [k \in 1..n |-> ((k - 1) * UOne) \div (n - 1)]

\* np.clip on one element
Clip(x, lo, hi) == IF x < lo THEN lo ELSE IF x > hi THEN hi ELSE x

\* -norm.ppf(x) in units of 2^-16 for the fractions x <= 1/2 of the grid
\* that a call with num_steps <= 9 produces (x = k * UOne / d, d <= 8),
\* and for x = eps, where the library returns -8.125890664701906
PpfTable ==
    (1 :> 532538) @@ (210 :> 75389) @@ (240 :> 69964) @@ (280 :> 63401) @@
    (336 :> 55156) @@ (420 :> 44203) @@ (480 :> 37090) @@ (560 :> 28228) @@
    (630 :> 20882) @@ (672 :> 16603) @@ (720 :> 11797) @@ (840 :> 0)

\* norm.ppf(x): the float nearest the standard normal quantile at x,
\* odd about x = 1/2
Ppf(x) ==
    IF 2 * x <= UOne
    THEN Num(- FlRat(PpfTable[x], Pow2(16 - FracBits)))
    ELSE Num(FlRat(PpfTable[UOne - x], Pow2(16 - FracBits)))

\* v.min(), v.max() of a non-empty float array; NaN propagates
RECURSIVE FoldMin(_, _, _)
FoldMin(a, k, acc) ==
    IF k > Len(a) THEN acc
    ELSE IF acc.nan \/ a[k].nan THEN NaN
    ELSE FoldMin(a, k + 1, IF a[k].x < acc.x THEN a[k] ELSE acc)

RECURSIVE FoldMax(_, _, _)
FoldMax(a, k, acc) ==
    IF k > Len(a) THEN acc
    ELSE IF acc.nan \/ a[k].nan THEN NaN
    ELSE FoldMax(a, k + 1, IF a[k].x > acc.x THEN a[k] ELSE acc)

VMin(a) == FoldMin(a, 2, a[1])

\* slip: the minimum taken where the maximum is meant
VMaxAsMin(a) == FoldMin(a, 2, a[1])

VMax(a) == FoldMax(a, 2, a[1])

\* what astype(int) may make of a NaN: the conversion is undefined, and
\* builds are known to give the least int64 or 0; the greatest int64 is
\* the third outcome kept.  IntHuge stands for 2^63.
IntHuge == Pow2(30)

CastOfNaN == {-IntHuge, 0, IntHuge}

\* np.round on one finite float, as an integer: nearest, ties to even
RoundInt(f) == Sign(f.x) * RoundHalfEven(Abs(f.x), One)

-----------------------------------------------------------------------------
(* The stages of get_biased_timesteps *)

\* line 30
ClipU(a) == [k \in 1..Len(a) |-> Clip(a[k], EpsU, UOne - EpsU)]

\* line 32
Warp(a, mm, ss) == [k \in 1..Len(a) |-> FAdd(mm, FMul(ss, Ppf(a[k])))]

\* slip: minimum and maximum exchanged, (v - max) / (min - max)
RescaleFromMax(a, n) ==
    LET lo == VMin(a)
        hi == VMax(a)
        d  == FSub(hi, lo)
    IN  [k \in 1..Len(a) |-> FMul(FDiv(FSub(hi, a[k]), d), Num((n - 1) * One))]

\* slip: scaled by num_steps, not num_steps - 1
RescaleByN(a, n) ==
    LET lo == VMin(a)
        hi == VMax(a)
        d  == FSub(hi, lo)
    IN  [k \in 1..Len(a) |-> FMul(FDiv(FSub(a[k], lo), d), Num(n * One))]

\* slip: the minimum not subtracted, v / (max - min)
RescaleNoShift(a, n) ==
    LET lo == VMin(a)
        hi == VMax(a)
        d  == FSub(hi, lo)
    IN  [k \in 1..Len(a) |-> FMul(FDiv(a[k], d), Num((n - 1) * One))]

\* line 34, for a non-empty v
Rescale(a, n) ==
    LET lo == VMin(a)
        hi == VMax(a)
        d  == FSub(hi, lo)
    IN  [k \in 1..Len(a) |-> FMul(FDiv(FSub(a[k], lo), d), Num((n - 1) * One))]

\* line 36: c[k] is what the conversion makes of a NaN at position k
RoundCast(a, c) ==
    [k \in 1..Len(a) |-> IF a[k].nan THEN c[k] ELSE RoundInt(a[k])]

\* slip: the lower bound dropped
ClampUpperOnly(a, n) == [k \in 1..Len(a) |-> IF a[k] > n - 1 THEN n - 1 ELSE a[k]]

\* slip: the upper bound num_steps, not num_steps - 1
ClampOffByOne(a, n) == [k \in 1..Len(a) |-> Clip(a[k], 0, n)]

\* line 37
Clamp(a, n) == [k \in 1..Len(a) |-> Clip(a[k], 0, n - 1)]

\* slip: the comparison inverted
RepairAtInverted(a, k) ==
    IF a[k + 1] > a[k] THEN [a EXCEPT ![k + 1] = a[k]] ELSE a

\* slip: the two elements exchanged, as one pass of a sort would
RepairAtSwap(a, k) ==
    IF a[k + 1] < a[k] THEN [a EXCEPT ![k + 1] = a[k], ![k] = a[k + 1]] ELSE a

\* lines 40-41 at index k (position k + 1)
RepairAt(a, k) ==
    IF a[k + 1] < a[k] THEN [a EXCEPT ![k + 1] = a[k]] ELSE a

-----------------------------------------------------------------------------
(* The arguments the model calls the function with *)

\* a shift that coarsens a warp of scale 1/2 without absorbing it
MMid == Pow2(MantBits + 1) * One

\* a shift large enough to absorb a warp of scale 1/2
MBig == Pow2(MantBits + 4) * One

MValues == {Num(0), Num(One), Num(MMid), Num(MBig), NaN}

SValues == {Num(-One), Num(0), Num(One \div 2), Num(One), Num(2 * One), NaN}

NValues == -1..MaxSteps

-----------------------------------------------------------------------------
(* The call, statement by statement *)

Init ==
    /\ num_steps \in NValues
    /\ m \in MValues
    /\ s \in SValues
    /\ pc = "linspace"
    /\ u = << >> /\ v = << >> /\ t = << >>
    /\ timesteps = << >> /\ clamped = << >>
    /\ i = 0 /\ iters = 0
    /\ err = "none" /\ result = << >>

\* line 27: np.linspace raises ValueError for a negative count
DoLinspace ==
    /\ pc = "linspace"
    /\ IF num_steps < 0
       THEN /\ pc' = "raised" /\ err' = "ValueError" /\ u' = u
       ELSE /\ pc' = "clip" /\ err' = err /\ u' = Linspace(num_steps)
    /\ UNCHANGED <<num_steps, m, s, v, t, timesteps, clamped, i, iters, result>>

\* lines 29-30
DoClip ==
    /\ pc = "clip"
    /\ u' = ClipU(u)
    /\ pc' = "warp"
    /\ UNCHANGED <<num_steps, m, s, v, t, timesteps, clamped, i, iters, err, result>>

\* line 32
DoWarp ==
    /\ pc = "warp"
    /\ v' = Warp(u, m, s)
    /\ pc' = "rescale"
    /\ UNCHANGED <<num_steps, m, s, u, t, timesteps, clamped, i, iters, err, result>>

\* slip: the reduction of an empty array passes silently
DoRescaleSilent ==
    /\ pc = "rescale"
    /\ pc' = "round" /\ err' = err
    /\ t' = IF Len(v) = 0 THEN << >> ELSE Rescale(v, num_steps)
    /\ UNCHANGED <<num_steps, m, s, u, v, timesteps, clamped, i, iters, result>>

\* line 34: v.min() of an empty array raises ValueError
DoRescale ==
    /\ pc = "rescale"
    /\ IF Len(v) = 0
       THEN /\ pc' = "raised" /\ err' = "ValueError" /\ t' = t
       ELSE /\ pc' = "round" /\ err' = err /\ t' = Rescale(v, num_steps)
    /\ UNCHANGED <<num_steps, m, s, u, v, timesteps, clamped, i, iters, result>>

\* line 36
DoRound ==
    /\ pc = "round"
    /\ \E c \in [1..Len(t) -> CastOfNaN] : timesteps' = RoundCast(t, c)
    /\ pc' = "clamp"
    /\ UNCHANGED <<num_steps, m, s, u, v, t, clamped, i, iters, err, result>>

\* line 37
DoClamp ==
    /\ pc = "clamp"
    /\ timesteps' = Clamp(timesteps, num_steps)
    /\ clamped' = timesteps'
    /\ i' = 1
    /\ pc' = "repair"
    /\ UNCHANGED <<num_steps, m, s, u, v, t, iters, err, result>>

\* lines 39-41: one iteration of the loop over range(1, len(timesteps))
DoRepair ==
    /\ pc = "repair"
    /\ i < Len(timesteps)
    /\ timesteps' = RepairAt(timesteps, i)
    /\ i' = i + 1
    /\ iters' = iters + 1
    /\ UNCHANGED <<num_steps, m, s, pc, u, v, t, clamped, err, result>>

\* line 42, once the loop is exhausted
DoReturn ==
    /\ pc = "repair"
    /\ i >= Len(timesteps)
    /\ result' = timesteps
    /\ pc' = "done"
    /\ UNCHANGED <<num_steps, m, s, u, v, t, timesteps, clamped, i, iters, err>>

Next ==
    \/ DoLinspace
    \/ DoClip
    \/ DoWarp
    \/ DoRescale
    \/ DoRound
    \/ DoClamp
    \/ DoRepair
    \/ DoReturn

Spec == Init /\ [][Next]_vars

-----------------------------------------------------------------------------
(* The whole call as a function of its arguments (lines 27-42) *)

\* stages 1-4 for n >= 1
TOf(n, mm, ss) == Rescale(Warp(ClipU(Linspace(n)), mm, ss), n)

\* the loop of lines 39-41 from index k on
RECURSIVE RepairFrom(_, _)
RepairFrom(a, k) ==
    IF k >= Len(a) THEN a ELSE RepairFrom(RepairAt(a, k), k + 1)

\* stages 5-6 for n >= 1, given what the conversion makes of each NaN
Finish(tt, c, n) == RepairFrom(Clamp(RoundCast(tt, c), n), 1)

\* the lists a call can return whose stage 4 left NaN at every position
AllNaNOutputs ==
    [n \in 1..MaxSteps |->
        {Finish([k \in 1..n |-> NaN], c, n) : c \in [1..n -> CastOfNaN]}]

\* the lists a call with n >= 1 can return: one, unless stage 4 left NaN
OutputsOf(n, mm, ss) ==
    LET tt == TOf(n, mm, ss)
    IN  IF \A k \in 1..n : tt[k].nan THEN AllNaNOutputs[n]
        ELSE IF \A k \in 1..n : ~tt[k].nan
        THEN {Finish(tt, [k \in 1..n |-> 0], n)}
        ELSE {Finish(tt, c, n) : c \in [1..n -> CastOfNaN]}

-----------------------------------------------------------------------------
(* Vocabulary of the properties *)

Returned == pc = "done"

Raised == pc = "raised"

PastRescale == pc \in {"round", "clamp", "repair", "done"}

PastClamp == pc \in {"repair", "done"}

Positive(f) == ~f.nan /\ f.x > 0

NonDecreasing(a) == \A k \in 2..Len(a) : a[k] >= a[k - 1]

InRange(a, n) == \A k \in 1..Len(a) : 0 <= a[k] /\ a[k] <= n - 1

RECURSIVE MaxUpTo(_, _)
MaxUpTo(a, k) ==
    IF k = 1 THEN a[1]
    ELSE LET p == MaxUpTo(a, k - 1) IN IF a[k] > p THEN a[k] ELSE p

-----------------------------------------------------------------------------
(* C1 *)

\* C1: a list the call returns is non-decreasing by position, whatever
\* m and s were passed.
C1_Monotone == Returned => NonDecreasing(result)

\* a call returned whose rounded and clamped values were out of order
C1_Witness == Returned /\ ~NonDecreasing(clamped)

-----------------------------------------------------------------------------
(* C2 *)

\* C2: a call with num_steps >= 1 returns num_steps integers, each within
\* 0..num_steps-1; the array is within that range from the clamp of line 37
\* on, through every iteration of the repair loop.
C2_LengthBounds ==
    /\ PastClamp => Len(timesteps) = num_steps /\ InRange(timesteps, num_steps)
    /\ Returned => Len(result) = num_steps /\ InRange(result, num_steps)

\* a call of at least two steps returned after the conversion of line 36
\* had produced a value outside the range
C2_Witness ==
    /\ Returned /\ num_steps >= 2 /\ t[1].nan
    /\ result[num_steps] = num_steps - 1

-----------------------------------------------------------------------------
(* C3 *)

\* C3: a call with num_steps < 1 never returns a list; it runs on until it
\* raises, and what it raises is ValueError, Python's invalid-argument
\* exception.
C3_InvalidArgument ==
    num_steps < 1 =>
        /\ ~Returned /\ ~PastRescale
        /\ result = << >>
        /\ Raised => err = "ValueError"
        /\ ~Raised => ENABLED Next

\* the call with num_steps = 0 raised at line 34
C3_Witness == Raised /\ num_steps = 0 /\ err = "ValueError"

-----------------------------------------------------------------------------
(* C4 *)

\* C4: a call with num_steps = 1 raises nothing and returns [0], for every
\* m and s.
C4_Degenerate ==
    num_steps = 1 => /\ ~Raised
                     /\ Returned => result = << 0 >>

\* the one-step call returned [0] although stage 4 had divided 0 by 0
C4_Witness == Returned /\ num_steps = 1 /\ t[1].nan /\ result = << 0 >>

-----------------------------------------------------------------------------
(* C5 *)

\* C5: with m = 0 and a positive s (the defaults among them) the first
\* element returned is 0.
C5_FirstIsZero ==
    (Returned /\ m = Num(0) /\ Positive(s)) => result[1] = 0

\* the default call of several steps returned, first element 0, last
\* element num_steps - 1
C5_Witness ==
    /\ Returned /\ num_steps >= 2 /\ m = Num(0) /\ s = Num(One \div 2)
    /\ result[1] = 0 /\ result[num_steps] = num_steps - 1

-----------------------------------------------------------------------------
(* C8 *)

\* C8: when the call returns, the element at each position is the greatest
\* rounded and clamped value at or before that position; the first element
\* is never written; an element not below its repaired predecessor keeps
\* its value; and the loop ran num_steps - 1 iterations.
C8_ForwardFill ==
    /\ PastClamp => timesteps[1] = clamped[1]
    /\ Returned =>
        /\ \A k \in 1..Len(result) : result[k] = MaxUpTo(clamped, k)
        /\ \A k \in 2..Len(result) :
               clamped[k] >= result[k - 1] => result[k] = clamped[k]
        /\ iters = num_steps - 1

\* a call returned in which the loop overwrote one element and kept a
\* later one
C8_Witness ==
    /\ Returned
    /\ \E j, k \in 2..Len(result) :
          /\ j < k
          /\ result[j] # clamped[j]
          /\ result[k] = clamped[k] /\ clamped[k] > clamped[k - 1]

-----------------------------------------------------------------------------
(* C6 *)

\* the number of elements of a within the middle third of [0, n-1]
MidCount(a, n) ==
    Cardinality({k \in 1..Len(a) : 3 * a[k] >= n - 1 /\ 3 * a[k] <= 2 * (n - 1)})

\* C6: with num_steps fixed and m = 0, a larger positive s leaves strictly
\* fewer elements of the returned list within the middle third of
\* [0, num_steps-1].
C6_ScaleSensitivity ==
    (Returned /\ num_steps = MaxSteps /\ m = Num(0) /\ Positive(s)) =>
        \A s2 \in SValues :
            (Positive(s2) /\ s2.x > s.x) =>
                \A r2 \in OutputsOf(num_steps, m, s2) :
                    MidCount(r2, num_steps) < MidCount(result, num_steps)

-----------------------------------------------------------------------------
(* C7 *)

-----------------------------------------------------------------------------
(* C9 *)

\* C9: in every call with num_steps >= 2, max(v) differs from min(v): the
\* division of stage 4 is never 0/0, and the call raises nothing.
C9_Denominator ==
    num_steps >= 2 =>
        /\ ~Raised
        /\ PastRescale => VMax(v) # VMin(v) /\ \A k \in 1..num_steps : ~t[k].nan

\* the shift is small enough for the scale: |m| <= |s| * 2^(MantBits + 2)
ShiftWithinScale(mm, ss) ==
    /\ ~mm.nan /\ ~ss.nan /\ ss.x # 0
    /\ Abs(mm.x) <= Abs(ss.x) * Pow2(MantBits + 2)

\* C9, amended: no call with num_steps >= 1 raises; with num_steps = 1
\* stage 4 divides 0 by 0; with num_steps >= 2, a finite s other than 0 and
\* a finite m with |m| <= |s| * 2^(MantBits + 2), max(v) differs from
\* min(v) and stage 4 yields no NaN.
C9_DenominatorGivenScale ==
    /\ num_steps >= 1 => ~Raised
    /\ (num_steps = 1 /\ PastRescale) => t[1].nan
    /\ (num_steps >= 2 /\ ShiftWithinScale(m, s) /\ PastRescale) =>
          /\ VMax(v) # VMin(v)
          /\ \A k \in 1..num_steps : ~t[k].nan

\* stage 4 divided by a nonzero denominator under a shift that had
\* coarsened the warp
C9_Witness ==
    /\ PastRescale /\ num_steps >= 2 /\ m = Num(MMid) /\ ShiftWithinScale(m, s)
    /\ VMax(v) # VMin(v)

-----------------------------------------------------------------------------
(* C10 *)

ExactShift(n, mm, ss) ==
    /\ ~mm.nan /\ ~ss.nan
    /\ \A k \in 1..n :
          LET w == FMul(ss, Ppf(ClipU(Linspace(n))[k]))
          IN  Fl(mm.x + w.x) = mm.x + w.x

=============================================================================
